---- MODULE Spec2Model ----
(***************************************************************************)
(* Model of the two tool actions of mcp-google-map:                        *)
(*   routes_optimize    -> RoutesService.optimizeRoute                     *)
(*                         (Routes Preferred API, Directions API fallback) *)
(*   places_text_search -> TextSearchService.search                        *)
(* One invocation is a short run: the action starts, the service awaits    *)
(* one or two backend responses, the action returns a payload.  Backend    *)
(* responses are the inputs; they are drawn from the bounded sets below.   *)
(*                                                                         *)
(* Encodings.  A JavaScript value that may be undefined is a sequence of   *)
(* length at most one (None, Some(v)).  Strings are TLA+ strings.          *)
(* Coordinates of a viewport are whole hundredths of a degree.  NaN is the *)
(* number NaN below; every other number of the model is a natural.         *)
(***************************************************************************)
EXTENDS Integers, Sequences, FiniteSets, TLC

(***************************************************************************)
(* Bounds of the model.                                                    *)
(***************************************************************************)
MaxWaypoints == 2
MaxLegs == 3
MaxPlaces == 2
MaxDurationLen == 4

(***************************************************************************)
(* Optional values and JavaScript truthiness.                              *)
(***************************************************************************)
None == <<>>
Some(v) == <<v>>
IsSome(o) == Len(o) = 1

\* Math.round(parseFloat(x)) of a string that is no number.
NaN == -1

\* a || b for numbers: undefined, 0 and NaN are falsy.
OrNum(o, d) == IF IsSome(o) /\ o[1] # 0 /\ o[1] # NaN THEN o[1] ELSE d

\* a || b for strings: undefined and "" are falsy.
OrStr(o, d) == IF IsSome(o) /\ o[1] # "" THEN o[1] ELSE d

\* a + b of JavaScript numbers.
Add(a, b) == IF a = NaN \/ b = NaN THEN NaN ELSE a + b

RECURSIVE SumSeq(_)
SumSeq(s) == IF Len(s) = 0 THEN 0 ELSE Add(SumSeq(SubSeq(s, 1, Len(s) - 1)), s[Len(s)])

\* String.prototype.includes
Includes(s, t) ==
  \E i \in 0..(Len(s) - Len(t)) : SubSeq(s, i + 1, i + Len(t)) = t

CharAt(s, i) == SubSeq(s, i, i)

Digits == <<"0", "1", "2", "3", "4", "5", "6", "7", "8", "9">>
IsDigit(c) == \E d \in 1..10 : Digits[d] = c
DigitVal(c) == (CHOOSE d \in 1..10 : Digits[d] = c) - 1

(***************************************************************************)
(* RoutesService: pure helpers.                                            *)
(***************************************************************************)
ROUTES_ENDPOINT == "https://routes.googleapis.com/directions/v2:computeRoutes"
DIRECTIONS_ENDPOINT == "https://maps.googleapis.com/maps/api/directions/json"

Ok(v) == [ok |-> TRUE, value |-> v]
\* A thrown value: an Error object with a message, or any other value.
\* by names the call that threw it (the identity of the error object).
Thrown(isErr, msg, who) == [ok |-> FALSE, error |-> [isError |-> isErr, message |-> msg, by |-> who]]

IsNumChar(c) == IsDigit(c) \/ c = "."

\* Index of the last character of the maximal [0-9.] run that starts at i.
RECURSIVE RunEnd(_, _)
RunEnd(s, i) == IF i < Len(s) /\ IsNumChar(CharAt(s, i + 1)) THEN RunEnd(s, i + 1) ELSE i

\* /([0-9.]+)s/.exec(s): the capture group of the leftmost match, if any.
\* The greedy run can only be followed by "s" at its maximal extent.
DurationMatch(s) ==
  LET starts == {i \in 1..Len(s) : /\ IsNumChar(CharAt(s, i))
                                   /\ RunEnd(s, i) < Len(s)
                                   /\ CharAt(s, RunEnd(s, i) + 1) = "s"}
  IN IF starts = {} THEN None
     ELSE LET i == CHOOSE j \in starts : \A k \in starts : j <= k
          IN Some(SubSeq(s, i, RunEnd(s, i)))

\* Index of the last digit of the digit run that starts at i (i - 1 if none).
RECURSIVE DigitsEnd(_, _)
DigitsEnd(s, i) == IF i <= Len(s) /\ IsDigit(CharAt(s, i)) THEN DigitsEnd(s, i + 1) ELSE i - 1

RECURSIVE DigitsValue(_)
DigitsValue(s) ==
  IF Len(s) = 0 THEN 0
  ELSE 10 * DigitsValue(SubSeq(s, 1, Len(s) - 1)) + DigitVal(CharAt(s, Len(s)))

\* Math.round(parseFloat(t)) for t made of digits and dots: parseFloat reads
\* digits, then one dot and digits; with no digit at all it is NaN.
\* Math.round rounds a half up.
RoundParseFloat(t) ==
  LET ie == DigitsEnd(t, 1)
      hasDot == ie < Len(t) /\ CharAt(t, ie + 1) = "."
      hasFrac == hasDot /\ DigitsEnd(t, ie + 2) >= ie + 2
  IN IF ie = 0 /\ ~hasFrac THEN NaN
     ELSE DigitsValue(SubSeq(t, 1, ie))
          + (IF hasFrac /\ DigitVal(CharAt(t, ie + 2)) >= 5 THEN 1 ELSE 0)

parseDurationSeconds(duration) ==
  IF ~IsSome(duration) \/ duration[1] = "" THEN 0
  ELSE LET match == DurationMatch(duration[1])
       IN IF ~IsSome(match) THEN 0 ELSE RoundParseFloat(match[1])

defaultLabel(index, total) ==
  IF index = 0 THEN "Origin"
  ELSE IF index = total - 1 THEN "Destination"
  ELSE "Stop " \o ToString(index)

normalizePoint(point, index, total) ==
  [label |-> OrStr(point.label, defaultLabel(index, total)),
   lat |-> point.lat,
   lng |-> point.lng]

\* orderedPoints[i] of a JavaScript array (0-based); None is undefined.
\* The elements of orderedPoints are themselves optional: waypoints[idx] of an
\* index outside the waypoint list is undefined.
PointAt(orderedPoints, i) ==
  IF (i + 1) \in DOMAIN orderedPoints THEN orderedPoints[i + 1] ELSE None

mapLegs(legsFromApi, orderedPoints) ==
  [k \in 1..Len(legsFromApi) |->
    LET idx == k - 1
        leg == legsFromApi[k]
        startPoint == IF IsSome(PointAt(orderedPoints, idx))
                      THEN PointAt(orderedPoints, idx)[1]
                      ELSE orderedPoints[1][1]
        endPoint == IF IsSome(PointAt(orderedPoints, idx + 1))
                    THEN PointAt(orderedPoints, idx + 1)[1]
                    ELSE orderedPoints[Len(orderedPoints)][1]
    IN [start_label |-> normalizePoint(startPoint, idx, Len(orderedPoints)).label,
        end_label |-> normalizePoint(endPoint, idx + 1, Len(orderedPoints)).label,
        distance_meters |-> OrNum(leg.distanceMeters, 0),
        duration_seconds |-> parseDurationSeconds(leg.duration)]]

\* No fallback to the legs: the total is 0 when the aggregate is absent.
SumDistancesZero(legs) == 0

sumDistances(legs) == SumSeq([k \in 1..Len(legs) |-> legs[k].distance_meters])

\* waypoints.map((_, index) => index)
IdentityOrder(waypoints) == [k \in 1..Len(waypoints) |-> k - 1]

\* The waypoints kept in input order, whatever order the backend returned.
OrderedPointsInputOrder(origin, waypoints, order, destination) ==
  <<Some(origin)>> \o [k \in 1..Len(waypoints) |-> Some(waypoints[k])] \o <<Some(destination)>>

\* [origin, ...order.map((idx) => waypoints[idx]), destination]
OrderedPoints(origin, waypoints, order, destination) ==
  <<Some(origin)>>
  \o [k \in 1..Len(order) |->
        IF (order[k] + 1) \in DOMAIN waypoints THEN Some(waypoints[order[k] + 1]) ELSE None]
  \o <<Some(destination)>>

\* orderedPoints.map((point, idx) => this.normalizePoint(point, idx, length));
\* defined only when no point is undefined.
NormalizeAll(orderedPoints) ==
  [k \in 1..Len(orderedPoints) |->
     normalizePoint(orderedPoints[k][1], k - 1, Len(orderedPoints))]

UndefinedLabelError == "Cannot read properties of undefined (reading 'label')"

(***************************************************************************)
(* RoutesService: the two backends.  A backend response is                 *)
(*   [kind |-> "reject", thrown |-> [isError, message]]   fetch rejects    *)
(*   [kind |-> "http", ok, status, statusText, json, ...] fetch resolves;  *)
(*        json says whether response.json() parses, and the remaining      *)
(*        fields are the parsed body.                                      *)
(***************************************************************************)
\* The provenance tags of the two backends.
sourcePreferred == "routes_preferred"
\* The fallback result tagged with the preferred backend's tag.
SourceFallbackMistagged == "routes_preferred"
sourceFallback == "directions_fallback"

\* safeParse(response)?.error?.message
safeParse(response) == IF response.json THEN response.errorMessage ELSE None

JsonSyntaxError == "Unexpected token < in JSON at position 0"

\* payload?.routes?.[0]
FirstRoute(routes) ==
  IF IsSome(routes) /\ Len(routes[1]) > 0 THEN Some(routes[1][1]) ELSE None

computeRoutesPreferred(params, response) ==
  IF response.kind = "reject"
  THEN Thrown(response.thrown.isError, response.thrown.message, "preferred")
  ELSE IF ~response.ok
  THEN LET upstream == OrStr(safeParse(response), response.statusText)
       IN Thrown(TRUE, "Routes Preferred API error: " \o upstream
                       \o " (HTTP " \o ToString(response.status) \o ")", "preferred")
  ELSE IF ~response.json
  THEN Thrown(TRUE, JsonSyntaxError, "preferred")
  ELSE IF ~IsSome(FirstRoute(response.routes))
  THEN Thrown(TRUE, "Routes Preferred API returned no routes", "preferred")
  ELSE
    LET route == FirstRoute(response.routes)[1]
        optimizedOrder == IF IsSome(route.optimizedIntermediateWaypointIndex)
                          THEN route.optimizedIntermediateWaypointIndex[1]
                          ELSE IdentityOrder(params.waypoints)
        orderedPoints == OrderedPoints(params.origin, params.waypoints,
                                       optimizedOrder, params.destination)
        legsFromApi == IF IsSome(route.legs) THEN route.legs[1] ELSE <<>>
        legs == mapLegs(legsFromApi, orderedPoints)
    IN IF \E k \in DOMAIN orderedPoints : ~IsSome(orderedPoints[k])
       THEN Thrown(TRUE, UndefinedLabelError, "preferred")
       ELSE Ok([polyline |-> OrStr(route.polyline, ""),
                ordered |-> NormalizeAll(orderedPoints),
                distance_meters |-> OrNum(route.distanceMeters, sumDistances(legs)),
                duration_seconds |-> parseDurationSeconds(route.duration),
                legs |-> legs,
                source |-> sourcePreferred])

\* legsFromApi.map((leg) => ({distanceMeters: ..., duration: `${...}s`}))
DirectionsLegs(legsFromApi) ==
  [k \in 1..Len(legsFromApi) |->
     [distanceMeters |-> Some(OrNum(legsFromApi[k].distance, 0)),
      duration |-> Some(ToString(OrNum(legsFromApi[k].duration_in_traffic,
                                       OrNum(legsFromApi[k].duration, 0))) \o "s")]]

computeDirectionsFallback(params, response) ==
  IF response.kind = "reject"
  THEN Thrown(response.thrown.isError, response.thrown.message, "fallback")
  ELSE IF ~response.ok
  THEN Thrown(TRUE, "Directions API HTTP error " \o ToString(response.status)
                    \o ": " \o response.statusText, "fallback")
  ELSE IF ~response.json
  THEN Thrown(TRUE, JsonSyntaxError, "fallback")
  ELSE IF response.apiStatus # Some("OK") \/ ~IsSome(FirstRoute(response.routes))
  THEN Thrown(TRUE, "Directions API error: " \o OrStr(response.apiStatus, "UNKNOWN"),
              "fallback")
  ELSE
    LET route == response.routes[1][1]
        waypointOrder == IF IsSome(route.waypoint_order)
                         THEN route.waypoint_order[1]
                         ELSE IdentityOrder(params.waypoints)
        orderedPoints == OrderedPoints(params.origin, params.waypoints,
                                       waypointOrder, params.destination)
        legsFromApi == IF IsSome(route.legs) THEN route.legs[1] ELSE <<>>
        legs == mapLegs(DirectionsLegs(legsFromApi), orderedPoints)
        totalDistance == SumSeq([k \in 1..Len(legs) |-> legs[k].distance_meters])
        totalDuration == SumSeq([k \in 1..Len(legs) |-> legs[k].duration_seconds])
    IN IF \E k \in DOMAIN orderedPoints : ~IsSome(orderedPoints[k])
       THEN Thrown(TRUE, UndefinedLabelError, "fallback")
       ELSE Ok([polyline |-> OrStr(route.overview_polyline, ""),
                ordered |-> NormalizeAll(orderedPoints),
                distance_meters |-> totalDistance,
                duration_seconds |-> totalDuration,
                legs |-> legs,
                source |-> sourceFallback])

(***************************************************************************)
(* TextSearchService.                                                      *)
(***************************************************************************)
PLACES_ENDPOINT == "https://places.googleapis.com/v1/places:searchText"

areaTokens ==
  <<"administrative_area_level", "locality", "sublocality", "postal_code",
    "country", "plus_code", "colloquial_area", "neighborhood", "political">>

\* Viewport coordinates are whole hundredths of a degree: 0.05 degrees is 5.
AreaSpanThreshold == 5

Abs(x) == IF x < 0 THEN 0 - x ELSE x

\* a ?? 0
OrZero(o) == IF IsSome(o) THEN o[1] ELSE 0

\* Type tags compared for equality with a token, not searched for one.
isAreaExactType(types, viewport) ==
  LET matchesType ==
        \E i \in DOMAIN types : \E j \in DOMAIN areaTokens : types[i] = areaTokens[j]
  IN IF matchesType THEN TRUE
     ELSE IF IsSome(viewport) /\ IsSome(viewport[1].low) /\ IsSome(viewport[1].high)
     THEN LET low == viewport[1].low[1]
              high == viewport[1].high[1]
              latSpan == Abs(OrZero(high.latitude) - OrZero(low.latitude))
              lngSpan == Abs(OrZero(high.longitude) - OrZero(low.longitude))
          IN latSpan > AreaSpanThreshold \/ lngSpan > AreaSpanThreshold
     ELSE FALSE

isArea(types, viewport) ==
  LET matchesType ==
        \E i \in DOMAIN types : \E j \in DOMAIN areaTokens :
           Includes(types[i], areaTokens[j])
  IN IF matchesType THEN TRUE
     ELSE IF IsSome(viewport) /\ IsSome(viewport[1].low) /\ IsSome(viewport[1].high)
     THEN LET low == viewport[1].low[1]
              high == viewport[1].high[1]
              latSpan == Abs(OrZero(high.latitude) - OrZero(low.latitude))
              lngSpan == Abs(OrZero(high.longitude) - OrZero(low.longitude))
          IN latSpan > AreaSpanThreshold \/ lngSpan > AreaSpanThreshold
     ELSE FALSE

StartsWith(s, t) == Len(s) >= Len(t) /\ SubSeq(s, 1, Len(t)) = t

\* s.replace(t, ""): the first occurrence of t removed.
RemoveFirst(s, t) ==
  IF ~Includes(s, t) THEN s
  ELSE LET i == CHOOSE j \in 0..(Len(s) - Len(t)) :
                  /\ SubSeq(s, j + 1, j + Len(t)) = t
                  /\ \A k \in 0..(j - 1) : SubSeq(s, k + 1, k + Len(t)) # t
       IN SubSeq(s, 1, i) \o SubSeq(s, i + Len(t) + 1, Len(s))

extractPlaceId(place) ==
  IF IsSome(place.name) /\ place.name[1] # "" /\ StartsWith(place.name[1], "places/")
  THEN RemoveFirst(place.name[1], "places/")
  ELSE OrStr(place.id, "")

transformCandidate(place, index) ==
  LET lat == IF IsSome(place.location) THEN OrZero(place.location[1].latitude) ELSE 0
      lng == IF IsSome(place.location) THEN OrZero(place.location[1].longitude) ELSE 0
      types == IF IsSome(place.types) THEN place.types[1] ELSE <<>>
  IN [place_id |-> extractPlaceId(place),
      name |-> OrStr(place.displayName,
                     OrStr(place.name, "Candidate " \o ToString(index + 1))),
      formatted_address |-> OrStr(place.formattedAddress, ""),
      lat |-> lat,
      lng |-> lng,
      types |-> types,
      is_area |-> isArea(types, place.viewport)]

\* JSON.stringify of a thrown value that is no Error (a string here).
JsonString(v) == "\"" \o v \o "\""

Min(a, b) == IF a < b THEN a ELSE b
Max(a, b) == IF a > b THEN a ELSE b

\* Math.max(1, Math.min(20, maxResults))
maxResultCount(maxResults) == Max(1, Min(20, maxResults))

\* The first candidate decides, however many there are.
ResolvedIgnoresCount(candidates) == Len(candidates) >= 1 /\ ~candidates[1].is_area

\* candidates.length === 1 && !candidates[0].is_area
resolvedOf(candidates) == Len(candidates) = 1 /\ ~candidates[1].is_area

\* The body of search's try block, given the backend's response.
searchTry(response) ==
  IF response.kind = "reject"
  THEN Thrown(response.thrown.isError, response.thrown.message, "places")
  ELSE IF ~response.ok
  THEN LET upstreamMessage == OrStr(safeParse(response), response.statusText)
       IN Thrown(TRUE, "Places text search failed: " \o upstreamMessage
                       \o " (HTTP " \o ToString(response.status) \o ")", "places")
  ELSE IF ~response.json
  THEN Thrown(TRUE, JsonSyntaxError, "places")
  ELSE LET places == IF IsSome(response.places) THEN response.places[1] ELSE <<>>
           candidates == [k \in 1..Len(places) |-> transformCandidate(places[k], k - 1)]
       IN Ok([resolved |-> resolvedOf(candidates), candidates |-> candidates])

\* search: the try block and its catch, which rethrows an Error and wraps
\* anything else.
search(response) ==
  LET r == searchTry(response)
  IN IF r.ok \/ r.error.isError THEN r
     ELSE Thrown(TRUE, "Places text search failed: " \o JsonString(r.error.message),
                 "places")

(***************************************************************************)
(* The caller-facing actions: what ACTION returns to the host for the      *)
(* service's outcome.  raised says that an exception left ACTION.          *)
(***************************************************************************)
\* A number in JSON.stringify's output: NaN is written null.
JsonNumber(n) == IF n = NaN THEN "null" ELSE ToString(n)

\* JSON.stringify(result, null, 2) of an OptimizeRouteResult.
StringifyRoute(result) ==
  [polyline |-> result.polyline,
   ordered |-> result.ordered,
   distance_meters |-> JsonNumber(result.distance_meters),
   duration_seconds |-> JsonNumber(result.duration_seconds),
   legs |-> [k \in 1..Len(result.legs) |->
               [start_label |-> result.legs[k].start_label,
                end_label |-> result.legs[k].end_label,
                distance_meters |-> JsonNumber(result.legs[k].distance_meters),
                duration_seconds |-> JsonNumber(result.legs[k].duration_seconds)]],
   source |-> result.source]

\* JSON.stringify(result, null, 2) of a TextSearchResult.
StringifySearch(result) == [resolved |-> result.resolved, candidates |-> result.candidates]

\* error instanceof Error ? error.message : JSON.stringify(error)
errorMessage(error) == IF error.isError THEN error.message ELSE JsonString(error.message)

\* A catch block that handles Error objects and rethrows anything else.
RoutesOptimizeACTIONRethrows(outcome) ==
  IF outcome.ok
  THEN [raised |-> FALSE, isError |-> FALSE,
        content |-> <<[type |-> "text", text |-> StringifyRoute(outcome.value)]>>]
  ELSE IF outcome.error.isError
  THEN [raised |-> FALSE, isError |-> TRUE,
        content |-> <<[type |-> "text",
                       text |-> "routes_optimize failed: " \o outcome.error.message]>>]
  ELSE [raised |-> TRUE, isError |-> TRUE, content |-> <<>>]

RoutesOptimizeACTION(outcome) ==
  IF outcome.ok
  THEN [raised |-> FALSE, isError |-> FALSE,
        content |-> <<[type |-> "text", text |-> StringifyRoute(outcome.value)]>>]
  ELSE [raised |-> FALSE, isError |-> TRUE,
        content |-> <<[type |-> "text",
                       text |-> "routes_optimize failed: " \o errorMessage(outcome.error)]>>]

TextSearchACTION(outcome) ==
  IF outcome.ok
  THEN [raised |-> FALSE, isError |-> FALSE,
        content |-> <<[type |-> "text", text |-> StringifySearch(outcome.value)]>>]
  ELSE [raised |-> FALSE, isError |-> TRUE,
        content |-> <<[type |-> "text",
                       text |-> "places_text_search failed: " \o errorMessage(outcome.error)]>>]

\* apiKey || process.env.GOOGLE_MAPS_API_KEY || ""
resolveApiKey(apiKey, envKey) == OrStr(apiKey, OrStr(envKey, ""))

(***************************************************************************)
(* Inputs: requests and backend responses, drawn from bounded sets.        *)
(***************************************************************************)
Letters == <<"A", "B", "C", "D", "E", "F">>

Point(i, lab, name) ==
  [lat |-> i, lng |-> i + 1, label |-> IF lab THEN Some(name) ELSE None]

\* n waypoints, every point labelled or none, either criterion.
Requests ==
  {[origin |-> Point(1, lab, "Home"),
    destination |-> Point(9, lab, "Office"),
    waypoints |-> [k \in 1..n |-> Point(k + 1, lab, "Stop " \o Letters[k])],
    optimizeBy |-> by] :
      n \in 0..MaxWaypoints, lab \in BOOLEAN, by \in {"time", "distance"}}

\* The API key of the request context and of the environment.
ApiKeys == {<<None, None>>, <<Some("test-key"), None>>, <<None, Some("test-key")>>}

Rejections ==
  {[kind |-> "reject", thrown |-> [isError |-> TRUE, message |-> "fetch failed"]],
   [kind |-> "reject", thrown |-> [isError |-> FALSE, message |-> "aborted"]]}

\* Non-success answers: the body parses or not, and carries error.message or not.
HttpFailures ==
  {[kind |-> "http", ok |-> FALSE, status |-> st[1], statusText |-> st[2],
    json |-> b[1], errorMessage |-> b[2]] :
      st \in {<<500, "Server Error">>, <<403, "Forbidden">>},
      b \in {<<FALSE, None>>, <<TRUE, None>>, <<TRUE, Some("API key invalid")>>}}

InvalidJson == [kind |-> "http", ok |-> TRUE, status |-> 200, statusText |-> "OK", json |-> FALSE]

\* A waypoint index sequence as a backend may return it for n waypoints: any
\* sequence of at most n indices into the list (shorter ones and repeated
\* indices included), and one that points outside the list.
IndexSeqs(n) == UNION {[1..k -> 0..(n - 1)] : k \in 0..n} \cup {<<n>>}

\* Leg k of a Routes Preferred route, in two variants.
PreferredLeg(t, k) ==
  IF t = 1
  THEN [distanceMeters |-> Some(1000 * k + 2000), duration |-> Some(ToString(50 * k + 200) \o "s")]
  ELSE IF k % 2 = 1 THEN [distanceMeters |-> None, duration |-> None]
  ELSE [distanceMeters |-> Some(0), duration |-> Some("1.5s")]

PreferredLegLists ==
  {None} \cup {Some([k \in 1..n |-> PreferredLeg(t, k)]) : t \in 1..2, n \in 0..MaxLegs}

PreferredRoutes(n) ==
  {[distanceMeters |-> d, duration |-> du, polyline |-> Some("abc123"),
    optimizedIntermediateWaypointIndex |-> ix, legs |-> lg] :
      d \in {None, Some(0), Some(12000)},
      du \in {None, Some("800s"), Some("1.5s")},
      ix \in {None} \cup {Some(q) : q \in IndexSeqs(n)},
      lg \in PreferredLegLists}

PreferredOk(routes) ==
  [kind |-> "http", ok |-> TRUE, status |-> 200, statusText |-> "OK", json |-> TRUE,
   routes |-> routes]

\* The answers the preferred backend may give to a request with n waypoints.
PreferredResponses(n) ==
  Rejections \cup HttpFailures \cup {InvalidJson}
  \cup {PreferredOk(None), PreferredOk(Some(<<>>))}
  \cup {PreferredOk(Some(<<r>>)) : r \in PreferredRoutes(n)}

\* Leg k of a Directions route, in two variants.
DirectionsLeg(t, k) ==
  IF t = 1
  THEN [distance |-> Some(1000 * k + 2000), duration_in_traffic |-> Some(50 * k + 150),
        duration |-> Some(100)]
  ELSE IF k % 3 = 1 THEN [distance |-> Some(4000), duration_in_traffic |-> None,
                          duration |-> Some(300)]
  ELSE IF k % 3 = 2 THEN [distance |-> None, duration_in_traffic |-> Some(0),
                          duration |-> Some(120)]
  ELSE [distance |-> Some(0), duration_in_traffic |-> None, duration |-> None]

DirectionsLegLists ==
  {None} \cup {Some([k \in 1..n |-> DirectionsLeg(t, k)]) : t \in 1..2, n \in 0..MaxLegs}

DirectionsRoutes(n) ==
  {[overview_polyline |-> Some("fallback"), waypoint_order |-> ix, legs |-> lg] :
      ix \in {None} \cup {Some(q) : q \in IndexSeqs(n)},
      lg \in DirectionsLegLists}

DirectionsOk(apiStatus, routes) ==
  [kind |-> "http", ok |-> TRUE, status |-> 200, statusText |-> "OK", json |-> TRUE,
   apiStatus |-> apiStatus, routes |-> routes]

\* The answers the fallback backend may give to a request with n waypoints.
DirectionsResponses(n) ==
  Rejections \cup HttpFailures \cup {InvalidJson}
  \cup {DirectionsOk(Some("REQUEST_DENIED"), None), DirectionsOk(None, None),
        DirectionsOk(Some("OK"), Some(<<>>)), DirectionsOk(Some("OK"), None)}
  \cup {DirectionsOk(Some("OK"), Some(<<r>>)) : r \in DirectionsRoutes(n)}

LatLng(lat, lng) == Some([latitude |-> lat, longitude |-> lng])

TypeLists ==
  {None, Some(<<"point_of_interest", "establishment">>),
   Some(<<"locality", "political">>), Some(<<"administrative_area_level_1">>),
   Some(<<"establishment", "sublocality_level_1">>)}

\* In hundredths of a degree: no viewport, half a box, spans of exactly 0.05,
\* a latitude span of 0.06, a longitude span of 0.06, a corner without latitude.
Viewports ==
  {None,
   Some([low |-> LatLng(Some(200), Some(300)), high |-> None]),
   Some([low |-> LatLng(Some(100), Some(100)), high |-> LatLng(Some(105), Some(105))]),
   Some([low |-> LatLng(Some(100), Some(100)), high |-> LatLng(Some(106), Some(100))]),
   Some([low |-> LatLng(Some(100), Some(3)), high |-> LatLng(Some(100), Some(-3))]),
   Some([low |-> LatLng(Some(200), Some(300)), high |-> LatLng(None, Some(300))])}

RawPlaces ==
  {[name |-> IF IsSome(ty) THEN Some("places/abc") ELSE None,
    id |-> IF IsSome(vp) THEN None ELSE Some("xyz"),
    displayName |-> IF IsSome(ty) /\ IsSome(vp) THEN None ELSE Some("Cafe 123"),
    formattedAddress |-> Some("123 Main St"),
    location |-> LatLng(Some(110), Some(220)),
    types |-> ty,
    viewport |-> vp] : ty \in TypeLists, vp \in Viewports}

PlaceLists == UNION {[1..n -> RawPlaces] : n \in 0..MaxPlaces}

PlacesOk(places) ==
  [kind |-> "http", ok |-> TRUE, status |-> 200, statusText |-> "OK", json |-> TRUE,
   places |-> places]

PlacesResponses ==
  Rejections \cup HttpFailures \cup {InvalidJson}
  \cup {PlacesOk(None)} \cup {PlacesOk(Some(ps)) : ps \in PlaceLists}

SearchParams ==
  {[query |-> "Cafe 123", maxResults |-> m, languageCode |-> None] : m \in {5, 20}}

(***************************************************************************)
(* Outbound requests.  The departure time is left out: it reads the clock. *)
(***************************************************************************)
toLatLng(point) == [latitude |-> point.lat, longitude |-> point.lng]

RoutesRequest(params, key) ==
  [endpoint |-> ROUTES_ENDPOINT,
   method |-> "POST",
   apiKey |-> key,
   body |-> [origin |-> toLatLng(params.origin),
             destination |-> toLatLng(params.destination),
             intermediates |-> [k \in 1..Len(params.waypoints) |->
                                  toLatLng(params.waypoints[k])],
             travelMode |-> "DRIVE",
             routingPreference |-> IF params.optimizeBy = "distance"
                                   THEN "TRAFFIC_UNAWARE" ELSE "TRAFFIC_AWARE_OPTIMAL",
             optimizeWaypointOrder |-> Len(params.waypoints) > 0]]

\* `${point.lat},${point.lng}`
LatLngString(point) == ToString(point.lat) \o "," \o ToString(point.lng)

RECURSIVE JoinPipe(_)
JoinPipe(strs) ==
  IF Len(strs) = 0 THEN ""
  ELSE IF Len(strs) = 1 THEN strs[1]
  ELSE JoinPipe(SubSeq(strs, 1, Len(strs) - 1)) \o "|" \o strs[Len(strs)]

DirectionsRequest(params, key) ==
  [endpoint |-> DIRECTIONS_ENDPOINT,
   method |-> "GET",
   apiKey |-> key,
   body |-> [origin |-> LatLngString(params.origin),
             destination |-> LatLngString(params.destination),
             mode |-> "driving",
             waypoints |-> IF Len(params.waypoints) > 0
                           THEN Some("optimize:true|" \o
                                     JoinPipe([k \in 1..Len(params.waypoints) |->
                                                 LatLngString(params.waypoints[k])]))
                           ELSE None]]

PlacesRequest(params, key) ==
  [endpoint |-> PLACES_ENDPOINT,
   method |-> "POST",
   apiKey |-> key,
   body |-> [textQuery |-> params.query,
             maxResultCount |-> maxResultCount(params.maxResults),
             languageCode |-> OrStr(params.languageCode, "en")]]

\* A catch clause that handles Error objects only and lets any other thrown
\* value pass.
CatchesOnlyErrorObjects(error) == error.isError

\* optimizeRoute's catch clause: which failures of the preferred path it
\* catches (all of them).
optimizeRouteCatches(error) == TRUE

\* The request optimizeRoute hands to computeDirectionsFallback.
fallbackParams(p) == p

(***************************************************************************)
(* State.                                                                  *)
(*   pc        where the running invocation stands                         *)
(*   tool      the action invoked                                          *)
(*   params    its parameter object                                        *)
(*   apiKey    the key the service was constructed with                    *)
(*   calls     the outbound requests made so far, in order                 *)
(*   response  the backend response received last                          *)
(*   logged    the errors handed to Logger.error                           *)
(*   outcome   what the service call produced: a result or a thrown error  *)
(*   returned  what ACTION handed back to the host                         *)
(***************************************************************************)
VARIABLES pc, tool, params, apiKey, calls, response, logged, outcome, returned

vars == <<pc, tool, params, apiKey, calls, response, logged, outcome, returned>>

Init ==
  /\ pc = "idle"
  /\ tool = "none"
  /\ params = None
  /\ apiKey = ""
  /\ calls = <<>>
  /\ response = None
  /\ logged = <<>>
  /\ outcome = None
  /\ returned = None

\* The host invokes routes_optimize: the service is constructed and the
\* preferred backend is called, or construction throws and ACTION returns.
StartRoutesOptimize ==
  /\ pc = "idle"
  /\ \E p \in Requests, keys \in ApiKeys :
       LET key == resolveApiKey(keys[1], keys[2])
           failed == Thrown(TRUE, "Google Maps API Key is required for route optimization",
                            "constructor")
       IN /\ tool' = "routes_optimize"
          /\ params' = Some(p)
          /\ apiKey' = key
          /\ response' = None
          /\ logged' = <<>>
          /\ IF key = ""
             THEN /\ pc' = "done"
                  /\ calls' = <<>>
                  /\ outcome' = Some(failed)
                  /\ returned' = Some(RoutesOptimizeACTION(failed))
             ELSE /\ pc' = "awaitPreferred"
                  /\ calls' = <<RoutesRequest(p, key)>>
                  /\ outcome' = None
                  /\ returned' = None

\* The preferred backend answers: optimizeRoute returns its result, or
\* catches the failure, logs it and calls the fallback backend.
PreferredResponds ==
  /\ pc = "awaitPreferred"
  /\ \E r \in PreferredResponses(Len(params[1].waypoints)) :
       LET o == computeRoutesPreferred(params[1], r)
       IN /\ response' = Some(r)
          /\ IF o.ok
             THEN /\ pc' = "done"
                  /\ outcome' = Some(o)
                  /\ returned' = Some(RoutesOptimizeACTION(o))
                  /\ UNCHANGED <<calls, logged>>
             ELSE IF optimizeRouteCatches(o.error)
             THEN /\ pc' = "awaitFallback"
                  /\ logged' = Append(logged, o.error)
                  /\ calls' = Append(calls, DirectionsRequest(fallbackParams(params[1]), apiKey))
                  /\ UNCHANGED <<outcome, returned>>
             ELSE /\ pc' = "done"
                  /\ outcome' = Some(o)
                  /\ returned' = Some(RoutesOptimizeACTION(o))
                  /\ UNCHANGED <<calls, logged>>
  /\ UNCHANGED <<tool, params, apiKey>>

\* A fallback that is called once more when it fails.
FallbackRespondsRetrying ==
  /\ pc = "awaitFallback"
  /\ \E r \in DirectionsResponses(Len(params[1].waypoints)) :
       LET o == computeDirectionsFallback(fallbackParams(params[1]), r)
       IN /\ response' = Some(r)
          /\ IF ~o.ok /\ Len(calls) < 3
             THEN /\ pc' = "awaitFallback"
                  /\ calls' = Append(calls, DirectionsRequest(fallbackParams(params[1]), apiKey))
                  /\ UNCHANGED <<outcome, returned>>
             ELSE /\ pc' = "done"
                  /\ outcome' = Some(o)
                  /\ returned' = Some(RoutesOptimizeACTION(o))
                  /\ UNCHANGED calls
  /\ UNCHANGED <<tool, params, apiKey, logged>>

\* The fallback backend answers: its result or its error is optimizeRoute's.
FallbackResponds ==
  /\ pc = "awaitFallback"
  /\ \E r \in DirectionsResponses(Len(params[1].waypoints)) :
       LET o == computeDirectionsFallback(fallbackParams(params[1]), r)
       IN /\ response' = Some(r)
          /\ outcome' = Some(o)
          /\ returned' = Some(RoutesOptimizeACTION(o))
  /\ pc' = "done"
  /\ UNCHANGED <<tool, params, apiKey, calls, logged>>

\* The host invokes places_text_search.
StartTextSearch ==
  /\ pc = "idle"
  /\ \E p \in SearchParams, keys \in ApiKeys :
       LET key == resolveApiKey(keys[1], keys[2])
           failed == Thrown(TRUE, "Google Maps API Key is required for text search",
                            "constructor")
       IN /\ tool' = "places_text_search"
          /\ params' = Some(p)
          /\ apiKey' = key
          /\ response' = None
          /\ logged' = <<>>
          /\ IF key = ""
             THEN /\ pc' = "done"
                  /\ calls' = <<>>
                  /\ outcome' = Some(failed)
                  /\ returned' = Some(TextSearchACTION(failed))
             ELSE /\ pc' = "awaitSearch"
                  /\ calls' = <<PlacesRequest(p, key)>>
                  /\ outcome' = None
                  /\ returned' = None

\* The place-search backend answers: search returns, or logs and throws.
SearchResponds ==
  /\ pc = "awaitSearch"
  /\ \E r \in PlacesResponses :
       LET o == search(r)
       IN /\ response' = Some(r)
          /\ outcome' = Some(o)
          /\ returned' = Some(TextSearchACTION(o))
          /\ logged' = IF o.ok THEN logged ELSE Append(logged, searchTry(r).error)
  /\ pc' = "done"
  /\ UNCHANGED <<tool, params, apiKey, calls>>

\* ACTION's promise settles and the host takes the payload: nothing of the
\* invocation is kept, the services hold no state between calls.
Finish ==
  /\ pc = "done"
  /\ pc' = "idle"
  /\ tool' = "none"
  /\ params' = None
  /\ apiKey' = ""
  /\ calls' = <<>>
  /\ response' = None
  /\ logged' = <<>>
  /\ outcome' = None
  /\ returned' = None

Next ==
  \/ StartRoutesOptimize
  \/ PreferredResponds
  \/ FallbackResponds
  \/ StartTextSearch
  \/ SearchResponds
  \/ Finish

Spec == Init /\ [][Next]_vars

(***************************************************************************)
(* parseDurationSeconds on its own: the argument is drawn from the absent  *)
(* duration and every string of at most MaxDurationLen characters over     *)
(* DurationChars, and the one step applies the function to it.             *)
(***************************************************************************)
DurationChars == {"0", "5", "8", ".", "s", "-"}

RECURSIVE DurationStrings(_)
DurationStrings(n) ==
  IF n = 0 THEN {""}
  ELSE DurationStrings(n - 1)
         \cup {s \o c : s \in DurationStrings(n - 1), c \in DurationChars}

\* duration?: string
DurationInputs == {None} \cup {Some(s) : s \in DurationStrings(MaxDurationLen)}

InitParse ==
  /\ pc = "parse"
  /\ tool = "parseDurationSeconds"
  /\ params \in {Some(d) : d \in DurationInputs}
  /\ apiKey = ""
  /\ calls = <<>>
  /\ response = None
  /\ logged = <<>>
  /\ outcome = None
  /\ returned = None

ParseDuration ==
  /\ pc = "parse"
  /\ pc' = "parsed"
  /\ outcome' = Some(Ok(parseDurationSeconds(params[1])))
  /\ UNCHANGED <<tool, params, apiKey, calls, response, logged, returned>>

NextParse == ParseDuration

SpecParse == InitParse /\ [][NextParse]_vars

(***************************************************************************)
(* Properties.                                                             *)
(***************************************************************************)
RoutesDone == pc = "done" /\ tool = "routes_optimize"
SearchDone == pc = "done" /\ tool = "places_text_search"
RouteReturned == RoutesDone /\ outcome[1].ok
Result == outcome[1].value

\* C1: optimizeRoute fails only if both backends fail.  Every failure of the
\* preferred path (rejection, non-success status, no route, an exception
\* while parsing or normalizing) is logged and followed by the fallback call
\* with the same request; a call that made only the preferred request ends
\* in a result; the error a caller gets is never the preferred path's; and a
\* fallback success is the call's result.
C1_FailsOnlyIfBothFail ==
  /\ pc = "awaitFallback" =>
       /\ ~computeRoutesPreferred(params[1], response[1]).ok
       /\ logged = <<computeRoutesPreferred(params[1], response[1]).error>>
       /\ calls = <<RoutesRequest(params[1], apiKey), DirectionsRequest(params[1], apiKey)>>
  /\ (RoutesDone /\ Len(calls) = 1) =>
       /\ computeRoutesPreferred(params[1], response[1]).ok
       /\ outcome[1].ok
  /\ (RoutesDone /\ ~outcome[1].ok) => outcome[1].error.by # "preferred"
  /\ (RoutesDone /\ Len(calls) = 2) =>
       /\ calls[2] = DirectionsRequest(params[1], apiKey)
       /\ outcome[1] = computeDirectionsFallback(params[1], response[1])
       /\ ~returned[1].isError <=> outcome[1].ok

\* The preferred path threw while normalizing (an index outside the waypoint
\* list) and the fallback's result was returned.
C1_Witness ==
  /\ RouteReturned
  /\ Len(calls) = 2
  /\ logged[1].message = UndefinedLabelError
  /\ ~returned[1].isError

\* C2: every returned result has one leg per consecutive pair of ordered
\* points: legs.length == ordered.length - 1.
C2_LegsMatchOrdered ==
  RouteReturned => Len(Result.legs) = Len(Result.ordered) - 1

\* C3: the provenance tag names the backend that produced the result.  A
\* preferred success is returned at once, tagged preferred, with no fallback
\* call made; a result returned after a fallback call is tagged fallback.
C3_SourceNamesBackend ==
  /\ pc = "awaitFallback" => ~computeRoutesPreferred(params[1], response[1]).ok
  /\ RouteReturned =>
       /\ Len(calls) = 1 =>
            /\ calls[1].endpoint = ROUTES_ENDPOINT
            /\ Result.source = "routes_preferred"
       /\ Len(calls) = 2 =>
            /\ calls[2].endpoint = DIRECTIONS_ENDPOINT
            /\ logged # <<>>
            /\ Result.source = "directions_fallback"
       /\ Result.source = "routes_preferred" =>
            \A k \in DOMAIN calls : calls[k].endpoint # DIRECTIONS_ENDPOINT

\* A result of the fallback backend, returned after the preferred backend
\* answered HTTP 500.
C3_Witness ==
  /\ RouteReturned
  /\ Result.source = "directions_fallback"
  /\ Includes(logged[1].message, "(HTTP 500)")

\* The index sequence the backend returned with the route behind the result,
\* if it returned one.
ReturnedOrder ==
  IF Result.source = "routes_preferred"
  THEN response[1].routes[1][1].optimizedIntermediateWaypointIndex
  ELSE response[1].routes[1][1].waypoint_order

SamePoint(out, in) ==
  /\ out.lat = in.lat
  /\ out.lng = in.lng
  /\ IsSome(in.label) => out.label = in.label[1]

\* C4: for both backends the ordered points are the origin, then
\* waypoints[p[0]], ..., waypoints[p[k-1]] for the returned index sequence p
\* (the waypoints in input order when none is returned), then the
\* destination.
C4_OrderedFollowsIndexSequence ==
  RouteReturned =>
    LET req == params[1]
        p == IF IsSome(ReturnedOrder) THEN ReturnedOrder[1]
             ELSE [k \in 1..Len(req.waypoints) |-> k - 1]
        ordered == Result.ordered
    IN /\ Len(ordered) = Len(p) + 2
       /\ SamePoint(ordered[1], req.origin)
       /\ \A k \in 1..Len(p) : SamePoint(ordered[k + 1], req.waypoints[p[k] + 1])
       /\ SamePoint(ordered[Len(ordered)], req.destination)

\* Waypoints [A, B] with the index sequence [1, 0] came back as
\* [origin, B, A, destination].
C4_Witness ==
  /\ RouteReturned
  /\ ReturnedOrder = Some(<<1, 0>>)
  /\ [k \in 1..Len(Result.ordered) |-> Result.ordered[k].label]
       = <<"Home", "Stop B", "Stop A", "Office">>

\* The leg of the fallback response behind leg k of the result.
FallbackLeg(k) == response[1].routes[1][1].legs[1][k]

\* C5: a fallback result's totals are the sums of its legs' distances and
\* durations, and each leg's duration is the backend's duration in traffic
\* when present and its static duration otherwise.
C5_FallbackTotalsAndTraffic ==
  (RouteReturned /\ Result.source = "directions_fallback") =>
    /\ Result.distance_meters
         = SumSeq([k \in 1..Len(Result.legs) |-> Result.legs[k].distance_meters])
    /\ Result.duration_seconds
         = SumSeq([k \in 1..Len(Result.legs) |-> Result.legs[k].duration_seconds])
    /\ \A k \in 1..Len(Result.legs) :
         Result.legs[k].duration_seconds =
           IF IsSome(FallbackLeg(k).duration_in_traffic)
           THEN FallbackLeg(k).duration_in_traffic[1]
           ELSE OrZero(FallbackLeg(k).duration)

\* The route of the preferred response behind the result.
PreferredRoute == response[1].routes[1][1]

SumLegDistances == SumSeq([k \in 1..Len(Result.legs) |-> Result.legs[k].distance_meters])
SumLegDurations == SumSeq([k \in 1..Len(Result.legs) |-> Result.legs[k].duration_seconds])

\* The whole seconds nearest to the aggregate durations the backend answers
\* with here (a half rounds up).
ExpectedSeconds(d) == IF d = "800s" THEN 800 ELSE IF d = "1.5s" THEN 2 ELSE 0 - 2

\* C6 (as stated): a preferred result's total distance and total duration
\* are the route's aggregate values when the route carries them and fall
\* back to the sum over the legs when the aggregate is absent.
C6_PreferredTotalsFromAggregate ==
  (RouteReturned /\ Result.source = "routes_preferred") =>
    /\ IsSome(PreferredRoute.distanceMeters) =>
         Result.distance_meters = PreferredRoute.distanceMeters[1]
    /\ ~IsSome(PreferredRoute.distanceMeters) =>
         Result.distance_meters = SumLegDistances
    /\ IsSome(PreferredRoute.duration) =>
         Result.duration_seconds = ExpectedSeconds(PreferredRoute.duration[1])
    /\ ~IsSome(PreferredRoute.duration) =>
         Result.duration_seconds \in {SumLegDistances, SumLegDurations}

\* C6 (amended): a preferred result's total distance is the route's aggregate
\* distance when the route carries a non-zero one and the sum of the leg
\* distances otherwise; its total duration is the route's aggregate duration
\* in whole seconds when the route carries one and 0 otherwise.
C6_PreferredTotalsAmended ==
  (RouteReturned /\ Result.source = "routes_preferred") =>
    /\ Result.distance_meters =
         IF IsSome(PreferredRoute.distanceMeters) /\ PreferredRoute.distanceMeters[1] # 0
         THEN PreferredRoute.distanceMeters[1]
         ELSE SumLegDistances
    /\ Result.duration_seconds =
         IF IsSome(PreferredRoute.duration)
         THEN ExpectedSeconds(PreferredRoute.duration[1])
         ELSE 0

\* A route without aggregates whose legs carry distances and durations: the
\* total distance is the legs' sum, the total duration is 0.
C6_Witness ==
  /\ RouteReturned
  /\ Result.source = "routes_preferred"
  /\ ~IsSome(PreferredRoute.distanceMeters)
  /\ ~IsSome(PreferredRoute.duration)
  /\ SumLegDurations > 0
  /\ Result.distance_meters = SumLegDistances
  /\ Result.distance_meters > 0
  /\ Result.duration_seconds = 0

SearchReturned == SearchDone /\ outcome[1].ok
Candidates == outcome[1].value.candidates
\* The raw places of the response behind the candidates.
ReturnedPlaces == IF IsSome(response[1].places) THEN response[1].places[1] ELSE <<>>

\* C7: a successful search is resolved exactly when one candidate is
\* returned and that candidate is no area; no candidate, several candidates
\* or a single area candidate give resolved = FALSE.
C7_ResolvedIffSinglePoint ==
  SearchReturned =>
    /\ Len(Candidates) = Len(ReturnedPlaces)
    /\ outcome[1].value.resolved <=> (Len(Candidates) = 1 /\ ~Candidates[1].is_area)
    /\ Len(Candidates) # 1 => ~outcome[1].value.resolved
    /\ (Len(Candidates) = 1 /\ Candidates[1].is_area) => ~outcome[1].value.resolved

\* One precise candidate came back and the search is resolved.
C7_Witness ==
  /\ SearchReturned
  /\ Len(Candidates) = 1
  /\ ~Candidates[1].is_area
  /\ outcome[1].value.resolved

AreaIndicatingTokens ==
  {"administrative_area_level", "locality", "sublocality", "postal_code", "country",
   "plus_code", "colloquial_area", "neighborhood", "political"}

HasAreaType(place) ==
  /\ IsSome(place.types)
  /\ \E i \in DOMAIN place.types[1] : \E t \in AreaIndicatingTokens :
       Includes(place.types[1][i], t)

\* A bounding box with both corners whose span exceeds 0.05 degrees in
\* latitude or in longitude, a coordinate a corner lacks being read as 0.
HasLargeBox(place) ==
  /\ IsSome(place.viewport)
  /\ IsSome(place.viewport[1].low)
  /\ IsSome(place.viewport[1].high)
  /\ LET lo == place.viewport[1].low[1]
         hi == place.viewport[1].high[1]
         dLat == OrZero(hi.latitude) - OrZero(lo.latitude)
         dLng == OrZero(hi.longitude) - OrZero(lo.longitude)
     IN dLat > 5 \/ dLat < 0 - 5 \/ dLng > 5 \/ dLng < 0 - 5

\* C8: a candidate is flagged as an area exactly when some type tag contains
\* an area-indicating token as a substring or its bounding box spans more
\* than 0.05 degrees of latitude or of longitude; either alone suffices.
C8_IsAreaIffTypeOrBox ==
  SearchReturned =>
    \A k \in 1..Len(Candidates) :
      Candidates[k].is_area <=> (HasAreaType(ReturnedPlaces[k]) \/ HasLargeBox(ReturnedPlaces[k]))

\* An area by its type alone (a tag that contains a token without being one)
\* beside an area by its box alone.
C8_Witness ==
  /\ SearchReturned
  /\ \E k \in 1..Len(Candidates) :
       /\ Candidates[k].is_area
       /\ HasAreaType(ReturnedPlaces[k])
       /\ ~HasLargeBox(ReturnedPlaces[k])
       /\ Candidates[k].types = <<"administrative_area_level_1">>
  /\ \E k \in 1..Len(Candidates) :
       /\ Candidates[k].is_area
       /\ ~HasAreaType(ReturnedPlaces[k])
       /\ HasLargeBox(ReturnedPlaces[k])

\* C9: neither action raises.  Whatever construction and the backend calls
\* do, ACTION returns a payload: the serialized result with isError false,
\* or a message with isError true.
C9_ActionsNeverRaise ==
  /\ pc # "done" => returned = None
  /\ pc = "done" =>
       /\ IsSome(returned)
       /\ ~returned[1].raised
       /\ Len(returned[1].content) = 1
       /\ returned[1].isError <=> ~outcome[1].ok
       /\ (RoutesDone /\ outcome[1].ok) =>
            /\ returned[1].content[1].text.source = Result.source
            /\ returned[1].content[1].text.ordered = Result.ordered
            /\ Len(returned[1].content[1].text.legs) = Len(Result.legs)
       /\ (SearchDone /\ outcome[1].ok) =>
            returned[1].content[1].text.candidates = Candidates
       /\ ~outcome[1].ok =>
            /\ Includes(returned[1].content[1].text, outcome[1].error.message)
            /\ Includes(returned[1].content[1].text, " failed: ")

\* Both backends failed, the fallback's fetch rejecting with a value that is
\* no Error object, and routes_optimize returned an error payload.
C9_Witness ==
  /\ RoutesDone
  /\ Len(calls) = 2
  /\ ~outcome[1].ok
  /\ ~outcome[1].error.isError
  /\ returned[1].isError
  /\ ~returned[1].raised

\* C10: an error surfaced for a backend that answered with a non-success
\* HTTP status (the fallback routing backend, the place-search backend)
\* carries the provider's message when the body holds one, else the status
\* text, and the HTTP status code.
C10_ErrorsCarryUpstreamMessage ==
  (pc = "done" /\ ~outcome[1].ok /\ IsSome(response)
     /\ response[1].kind = "http" /\ ~response[1].ok) =>
    LET r == response[1]
        upstream == IF r.json /\ IsSome(r.errorMessage) THEN r.errorMessage[1]
                    ELSE r.statusText
    IN /\ Includes(outcome[1].error.message, upstream)
       /\ Includes(outcome[1].error.message, ToString(r.status))

\* C11: one optimizeRoute invocation makes at most two outbound calls, in
\* sequence: the preferred backend first, and the fallback backend only once
\* the preferred attempt has ended in failure; neither is called again.  One
\* search invocation makes at most one call.
C11_AtMostTwoSequentialCalls ==
  /\ tool = "none" => calls = <<>>
  /\ tool = "routes_optimize" =>
       /\ Len(calls) <= 2
       /\ Len(calls) >= 1 => calls[1].endpoint = ROUTES_ENDPOINT
       /\ pc = "awaitPreferred" => (Len(calls) = 1 /\ response = None)
       /\ pc = "awaitFallback" =>
            /\ Len(calls) = 2
            /\ ~computeRoutesPreferred(params[1], response[1]).ok
       /\ Len(calls) = 2 =>
            /\ calls[2].endpoint = DIRECTIONS_ENDPOINT
            /\ pc \in {"awaitFallback", "done"}
            /\ Len(logged) = 1
            /\ logged[1].by = "preferred"
  /\ tool = "places_text_search" =>
       /\ Len(calls) <= 1
       /\ Len(calls) = 1 => calls[1].endpoint = PLACES_ENDPOINT
       /\ pc = "awaitSearch" => (Len(calls) = 1 /\ response = None)

\* Both backends failed and the invocation ended after two calls.
C11_Witness ==
  /\ RoutesDone
  /\ Len(calls) = 2
  /\ ~outcome[1].ok
  /\ outcome[1].error.by = "fallback"

\* C12: in every returned result each leg joins the consecutive pair of
\* ordered points at its index: legs[i].start_label == ordered[i].label and
\* legs[i].end_label == ordered[i+1].label for every leg index i, where a point
\* given without a label carries "Origin", "Destination" or "Stop {index}".
C12_LegsJoinOrderedPairs ==
  RouteReturned =>
    \A k \in DOMAIN Result.legs :
      /\ (k + 1) \in DOMAIN Result.ordered
      /\ Result.legs[k].start_label = Result.ordered[k].label
      /\ Result.legs[k].end_label = Result.ordered[k + 1].label

\* A string with no digit in it, or with no "s" in it, is not a duration.
Unparseable(s) ==
  \/ \A i \in 1..Len(s) : ~IsDigit(CharAt(s, i))
  \/ \A i \in 1..Len(s) : CharAt(s, i) # "s"

\* <digits>s or <digits>.<digits>s, and nothing else.
WellFormedDuration(s) ==
  LET ie == DigitsEnd(s, 1)
  IN /\ ie >= 1
     /\ \/ ie + 1 = Len(s) /\ CharAt(s, ie + 1) = "s"
        \/ /\ ie + 1 < Len(s)
           /\ CharAt(s, ie + 1) = "."
           /\ DigitsEnd(s, ie + 2) = Len(s) - 1
           /\ DigitsEnd(s, ie + 2) >= ie + 2
           /\ CharAt(s, Len(s)) = "s"

\* The number before the "s", rounded to the nearest whole number.
RoundedSeconds(s) ==
  LET ie == DigitsEnd(s, 1)
  IN DigitsValue(SubSeq(s, 1, ie))
       + (IF CharAt(s, ie + 1) = "." /\ DigitVal(CharAt(s, ie + 2)) >= 5
          THEN 1 ELSE 0)

\* C13: parseDurationSeconds maps every "<number>s" string to its number
\* rounded to the nearest whole second, and every absent or unparseable
\* duration to 0; the parsed value is always a non-negative whole number.
C13_DurationParsing ==
  pc = "parsed" =>
    LET duration == params[1]
        seconds == outcome[1].value
    IN /\ seconds \in Nat
       /\ ~IsSome(duration) => seconds = 0
       /\ IsSome(duration) /\ Unparseable(duration[1]) => seconds = 0
       /\ IsSome(duration) /\ WellFormedDuration(duration[1]) =>
            seconds = RoundedSeconds(duration[1])

====
